---- MODULE Spec2Model ----
(***************************************************************************)
(* Model of ezdxf.math.vector: the immutable 3D Vector value type, its     *)
(* argument decomposition, operators, comparisons and the free functions   *)
(* distance and lerp.                                                      *)
(*                                                                         *)
(* Numbers.  A Python float is modelled as a decimal floating point number *)
(* m * 10^e kept in canonical form (m = 0 => e = 0, otherwise m is not a   *)
(* multiple of ten).  An operation is computed exactly when the exact      *)
(* result fits 32-bit integers; an addition whose operands are            *)
(* more than Precision orders of magnitude apart returns the operand of    *)
(* larger magnitude, which is what IEEE-754 binary64 rounding gives (the   *)
(* smaller operand is below half a unit in the last place).  Every other   *)
(* case yields NaR ("not a representable result of the model"); an         *)
(* evaluation that meets NaR is outside the model and its action is not    *)
(* taken.  Infinities, NaN and signed zero are not modelled.               *)
(***************************************************************************)
EXTENDS Integers, Sequences, FiniteSets, TLC

VARIABLES heap, res

vars == <<heap, res>>

----------------------------------------------------------------------------
(* Floating point numbers                                                  *)

\* decimal orders of magnitude beyond which the smaller addend is absorbed
Precision == 17

\* half the largest integer the model computes with (below 2^30)
MaxMant == 1073741823

Num(m, e) == [m |-> m, e |-> e, ok |-> TRUE]

NaR == [m |-> 0, e |-> 0, ok |-> FALSE]

Zero == Num(0, 0)

Abs(n) == IF n < 0 THEN -n ELSE n

RECURSIVE Pow10(_)
Pow10(k) == IF k <= 0 THEN 1 ELSE 10 * Pow10(k - 1)

RECURSIVE Digits(_)
Digits(n) == IF n = 0 THEN 0 ELSE 1 + Digits(n \div 10)

RECURSIVE Norm(_, _)
Norm(m, e) ==
    IF m = 0 THEN Zero
    ELSE IF m % 10 = 0 THEN Norm((IF m < 0 THEN -1 ELSE 1) * (Abs(m) \div 10), e + 1)
    ELSE Num(m, e)

\* order of magnitude: 10^(Mag-1) <= |a| < 10^Mag for a # 0
Mag(a) == Digits(Abs(a.m)) + a.e

\* the largest integer the model computes with
IntMax == MaxMant + (MaxMant - 1)

\* m * 10^d can be formed without leaving the model's integers
Fits(m, d) == d >= 0 /\ d <= 9 /\ Abs(m) <= IntMax \div Pow10(d)

FNeg(a) == IF a.ok THEN Num(-a.m, a.e) ELSE NaR

FAbs(a) == IF a.ok THEN Num(Abs(a.m), a.e) ELSE NaR

\* a + b is formed exactly: no rounding takes place
AddIsExact(a, b) ==
    \/ a.m = 0
    \/ b.m = 0
    \/ LET lo == IF a.e < b.e THEN a.e ELSE b.e
       IN  /\ Fits(a.m, a.e - lo)
           /\ Fits(b.m, b.e - lo)
           /\ \/ (a.m < 0) # (b.m < 0)
              \/ Abs(a.m) * Pow10(a.e - lo) <= IntMax - Abs(b.m) * Pow10(b.e - lo)

FAdd(a, b) ==
    IF ~a.ok \/ ~b.ok THEN NaR
    ELSE IF a.m = 0 THEN b
    ELSE IF b.m = 0 THEN a
    ELSE LET lo == IF a.e < b.e THEN a.e ELSE b.e
         IN  IF AddIsExact(a, b)
             THEN Norm(a.m * Pow10(a.e - lo) + b.m * Pow10(b.e - lo), lo)
             ELSE IF Mag(a) - Mag(b) > Precision THEN a
             ELSE IF Mag(b) - Mag(a) > Precision THEN b
             ELSE NaR

FSub(a, b) == FAdd(a, FNeg(b))

FMul(a, b) ==
    IF ~a.ok \/ ~b.ok THEN NaR
    ELSE IF a.m = 0 \/ b.m = 0 THEN Zero
    ELSE IF Abs(a.m) <= IntMax \div Abs(b.m)
         THEN Norm(a.m * b.m, a.e + b.e)
         ELSE NaR

\* a / b for b # 0: exact when the quotient terminates within the mantissa
FDiv(a, b) ==
    IF ~a.ok \/ ~b.ok \/ b.m = 0 THEN NaR
    ELSE IF a.m = 0 THEN Zero
    ELSE LET sgn == IF (a.m < 0) = (b.m < 0) THEN 1 ELSE -1
             ks  == {k \in 0..9 : Fits(a.m, k) /\ (Abs(a.m) * Pow10(k)) % Abs(b.m) = 0}
         IN  IF ks = {} THEN NaR
             ELSE LET k == CHOOSE j \in ks : \A i \in ks : j <= i
                  IN  Norm(sgn * ((Abs(a.m) * Pow10(k)) \div Abs(b.m)), a.e - b.e - k)

\* the largest r in lo..hi with r * r <= n, by bisection
RECURSIVE ISqrt(_, _, _)
ISqrt(n, lo, hi) ==
    IF lo >= hi THEN lo
    ELSE LET mid == (lo + hi + 1) \div 2
         IN  IF mid * mid <= n THEN ISqrt(n, mid, hi) ELSE ISqrt(n, lo, mid - 1)

\* a ** .5 for a >= 0: exact on perfect squares
FSqrt(a) ==
    IF ~a.ok \/ a.m < 0 THEN NaR
    ELSE IF a.m = 0 THEN Zero
    ELSE IF ~Fits(a.m, 1) THEN NaR
    ELSE LET odd == a.e % 2 = 1
             m2  == IF odd THEN a.m * 10 ELSE a.m
             e2  == IF odd THEN a.e - 1 ELSE a.e
             r   == ISqrt(m2, 0, 46340)
         IN  IF r * r = m2 THEN Norm(r, e2 \div 2) ELSE NaR

\* a <= b for a, b >= 0
LeNonNeg(a, b) ==
    IF a.m = 0 THEN TRUE
    ELSE IF b.m = 0 THEN FALSE
    ELSE IF Mag(a) # Mag(b) THEN Mag(a) < Mag(b)
    ELSE IF a.e >= b.e THEN a.m <= b.m \div Pow10(a.e - b.e)
    ELSE ~(b.m <= (a.m - 1) \div Pow10(b.e - a.e))

\* a < b, exact
FLt(a, b) ==
    IF a.m < 0 /\ b.m >= 0 THEN TRUE
    ELSE IF a.m >= 0 /\ b.m < 0 THEN FALSE
    ELSE IF a.m >= 0 THEN ~LeNonNeg(b, a)
    ELSE ~LeNonNeg(FAbs(a), FAbs(b))

----------------------------------------------------------------------------
(* Python values and outcomes                                              *)

PyInt(n) == [t |-> "int", n |-> n]

PyFloat(f) == [t |-> "float", f |-> f]

PyNone == [t |-> "None"]

PyBool(b) == [t |-> "bool", b |-> b]

\* a tuple or list
PySeq(items) == [t |-> "seq", items |-> items]

\* a Vector instance with its _x, _y, _z slots
PyVector(xyz) == [t |-> "Vector", xyz |-> xyz]

\* the int hash() returns for a tuple of floats: it is determined by the
\* values of the components, and different for the different triples modelled
PyHash(xyz) == [t |-> "hash", of |-> xyz]

\* the float math.acos returns for the cosine c
PyAcos(c) == [t |-> "acos", c |-> c]

Ok(v) == [exc |-> "none", val |-> v]

Raise(e) == [exc |-> e, val |-> PyNone]

\* the evaluation needs a number the model does not represent
Unmodelled == Raise("unmodelled")

IsNumber(v) == v.t \in {"int", "float"}

\* float(v)
ToFloat(v) ==
    IF v.t = "int" THEN Ok(Norm(v.n, 0))
    ELSE IF v.t = "float" THEN (IF v.f.ok THEN Ok(v.f) ELSE Unmodelled)
    ELSE Raise("TypeError")

\* Float3 returning the first two components in the wrong order
Float3Swapped(x, y, z) ==
    LET fx == ToFloat(x)
        fy == ToFloat(y)
        fz == ToFloat(z)
    IN  IF fx.exc # "none" THEN fx
        ELSE IF fy.exc # "none" THEN fy
        ELSE IF fz.exc # "none" THEN fz
        ELSE Ok(<<fy.val, fx.val, fz.val>>)

\* float(x), float(y), float(z), evaluated left to right
Float3(x, y, z) ==
    LET fx == ToFloat(x)
        fy == ToFloat(y)
        fz == ToFloat(z)
    IN  IF fx.exc # "none" THEN fx
        ELSE IF fy.exc # "none" THEN fy
        ELSE IF fz.exc # "none" THEN fz
        ELSE Ok(<<fx.val, fy.val, fz.val>>)

\* a division that yields 0.0 for a zero divisor instead of raising
PyDivQuiet(a, b) ==
    IF ~b.ok THEN Unmodelled
    ELSE IF b.m = 0 THEN Ok(Zero)
    ELSE Ok(FDiv(a, b))

\* a / b on floats
PyDiv(a, b) ==
    IF ~b.ok THEN Unmodelled
    ELSE IF b.m = 0 THEN Raise("ZeroDivisionError")
    ELSE Ok(FDiv(a, b))

\* math.isclose(a, b, rel_tol=rel, abs_tol=abs)
math_isclose(a, b, rel, abs) ==
    IF ~a.ok \/ ~b.ok THEN Unmodelled
    ELSE IF a = b THEN Ok(TRUE)
    ELSE LET diff == FAbs(FSub(b, a))
             rb   == FAbs(FMul(rel, b))
             ra   == FAbs(FMul(rel, a))
         IN  IF ~diff.ok \/ ~rb.ok \/ ~ra.ok THEN Unmodelled
             ELSE Ok(LeNonNeg(diff, rb) \/ LeNonNeg(diff, ra) \/ LeNonNeg(diff, abs))

\* default rel_tol of math.isclose
REL_TOL == Num(1, -9)

\* isclose comparing with the absolute tolerance alone
iscloseAbsolute(a, b) == math_isclose(a, b, Zero, Num(1, -14))

\* isclose = partial(math.isclose, abs_tol=1e-14)
isclose(a, b) == math_isclose(a, b, REL_TOL, Num(1, -14))

----------------------------------------------------------------------------
(* Vector: construction                                                    *)

\* Vector.decompose(*args): an outcome whose value is the triple <<x, y, z>>
decompose(args) ==
    LET length == Len(args)
    IN  IF length = 0 THEN Ok(<<Zero, Zero, Zero>>)
        ELSE IF length = 1 THEN
            LET data == args[1]
            IN  IF data.t = "Vector" THEN Ok(data.xyz)
                ELSE IF data.t # "seq" THEN Raise("ValueError")
                ELSE IF Len(data.items) < 2 THEN Raise("ValueError")
                ELSE Float3(data.items[1], data.items[2],
                            IF Len(data.items) > 2 THEN data.items[3] ELSE PyFloat(Zero))
        ELSE IF length = 2 THEN Float3(args[1], args[2], PyFloat(Zero))
        ELSE IF length = 3 THEN Float3(args[1], args[2], args[3])
        ELSE Raise("ValueError")

\* Vector(*args)
Vector(args) ==
    LET d == decompose(args)
    IN  IF d.exc # "none" THEN d ELSE Ok(PyVector(d.val))

\* self.__class__(x, y, z) on floats
Vector3(x, y, z) == Vector(<<PyFloat(x), PyFloat(y), PyFloat(z)>>)

----------------------------------------------------------------------------
(* Vector: accessors.  self is the triple <<_x, _y, _z>> of the instance   *)

\* Vector.xyz
xyz(self) == Ok(PySeq(<<PyFloat(self[1]), PyFloat(self[2]), PyFloat(self[3])>>))

\* Vector.xy
xy(self) == Vector(<<PyFloat(self[1]), PyFloat(self[2])>>)

\* Vector.replace(x, y, z); PyNone stands for an argument left out
replace(self, x, y, z) ==
    Vector(<<IF x.t = "None" THEN PyFloat(self[1]) ELSE x,
             IF y.t = "None" THEN PyFloat(self[2]) ELSE y,
             IF z.t = "None" THEN PyFloat(self[3]) ELSE z>>)

\* Vector.copy()
copy(self) == Vector3(self[1], self[2], self[3])

\* indexing that accepts 0, 1 and 2 only
__getitem__Strict(self, index) ==
    IF index.t # "int" THEN Raise("TypeError")
    ELSE IF index.n >= 0 /\ index.n < 3 THEN Ok(PyFloat(self[index.n + 1]))
    ELSE Raise("IndexError")

\* Vector.__hash__(): hash(self.xyz)
__hash__(self) == Ok(PyHash(self))

\* Vector.__getitem__(index): self.xyz[index], the indexing of a 3-tuple
__getitem__(self, index) ==
    IF index.t # "int" THEN Raise("TypeError")
    ELSE IF index.n >= 0 /\ index.n < 3 THEN Ok(PyFloat(self[index.n + 1]))
    ELSE IF index.n < 0 /\ index.n >= -3 THEN Ok(PyFloat(self[index.n + 3 + 1]))
    ELSE Raise("IndexError")

\* Vector.magnitude_square
magnitude_square(self) ==
    FAdd(FAdd(FMul(self[1], self[1]), FMul(self[2], self[2])), FMul(self[3], self[3]))

\* Vector.magnitude
magnitude(self) == FSqrt(magnitude_square(self))

----------------------------------------------------------------------------
(* Vector: arithmetic operators                                            *)

\* Vector.__add__(other)
__add__(self, other) ==
    IF IsNumber(other) THEN
        LET scalar == ToFloat(other)
        IN  IF scalar.exc # "none" THEN scalar
            ELSE Vector3(FAdd(self[1], scalar.val), FAdd(self[2], scalar.val),
                         FAdd(self[3], scalar.val))
    ELSE
        LET d == decompose(<<other>>)
        IN  IF d.exc # "none" THEN d
            ELSE Vector3(FAdd(self[1], d.val[1]), FAdd(self[2], d.val[2]),
                         FAdd(self[3], d.val[3]))

\* a right-hand addition that adds a scalar to the x component only
__radd__Skewed(self, other) ==
    IF IsNumber(other) THEN
        LET scalar == ToFloat(other)
        IN  IF scalar.exc # "none" THEN scalar
            ELSE Vector3(FAdd(self[1], scalar.val), self[2], self[3])
    ELSE
        LET d == decompose(<<other>>)
        IN  IF d.exc # "none" THEN d
            ELSE Vector3(FAdd(self[1], d.val[1]), FAdd(self[2], d.val[2]),
                         FAdd(self[3], d.val[3]))

\* Vector.__radd__(other)
__radd__(self, other) == __add__(self, other)

\* Vector.__sub__(other)
__sub__(self, other) ==
    IF IsNumber(other) THEN
        LET scalar == ToFloat(other)
        IN  IF scalar.exc # "none" THEN scalar
            ELSE Vector3(FSub(self[1], scalar.val), FSub(self[2], scalar.val),
                         FSub(self[3], scalar.val))
    ELSE
        LET d == decompose(<<other>>)
        IN  IF d.exc # "none" THEN d
            ELSE Vector3(FSub(self[1], d.val[1]), FSub(self[2], d.val[2]),
                         FSub(self[3], d.val[3]))

\* Vector.__rsub__(other)
__rsub__(self, other) ==
    IF IsNumber(other) THEN
        LET scalar == ToFloat(other)
        IN  IF scalar.exc # "none" THEN scalar
            ELSE Vector3(FSub(scalar.val, self[1]),
                         FSub(FSub(scalar.val, self[2]), scalar.val),
                         FSub(scalar.val, self[3]))
    ELSE
        LET d == decompose(<<other>>)
        IN  IF d.exc # "none" THEN d
            ELSE Vector3(FSub(d.val[1], self[1]), FSub(d.val[2], self[2]),
                         FSub(d.val[3], self[3]))

\* Vector.__mul__(other)
__mul__(self, other) ==
    LET scalar == ToFloat(other)
    IN  IF scalar.exc # "none" THEN scalar
        ELSE Vector3(FMul(self[1], scalar.val), FMul(self[2], scalar.val),
                     FMul(self[3], scalar.val))

\* Vector.__rmul__(other)
__rmul__(self, other) == __mul__(self, other)

\* Vector.__truediv__(other)
__truediv__(self, other) ==
    LET scalar == ToFloat(other)
    IN  IF scalar.exc # "none" THEN scalar
        ELSE LET qx == PyDiv(self[1], scalar.val)
                 qy == PyDiv(self[2], scalar.val)
                 qz == PyDiv(self[3], scalar.val)
             IN  IF qx.exc # "none" THEN qx
                 ELSE IF qy.exc # "none" THEN qy
                 ELSE IF qz.exc # "none" THEN qz
                 ELSE Vector3(qx.val, qy.val, qz.val)

\* Vector.__rtruediv__(other)
__rtruediv__(self, other) ==
    LET scalar == ToFloat(other)
    IN  IF scalar.exc # "none" THEN scalar
        ELSE LET qx == PyDiv(scalar.val, self[1])
                 qy == PyDiv(scalar.val, self[2])
                 qz == PyDiv(scalar.val, self[3])
             IN  IF qx.exc # "none" THEN qx
                 ELSE IF qy.exc # "none" THEN qy
                 ELSE IF qz.exc # "none" THEN qz
                 ELSE Vector3(qx.val, qy.val, qz.val)

\* Vector.reversed(), also __neg__
reversed(self) == __mul__(self, PyFloat(Num(-1, 0)))

\* an orthogonal that swaps x and y without negating either
orthogonalMirrored(self, ccw) == Vector3(self[2], self[1], self[3])

\* Vector.orthogonal(ccw)
orthogonal(self, ccw) ==
    IF ccw THEN Vector3(FNeg(self[2]), self[1], self[3])
    ELSE Vector3(self[2], FNeg(self[1]), self[3])

\* Vector.normalize(length)
normalize(self, length) ==
    LET mag == magnitude(self)
    IN  IF ~IsNumber(length) THEN Raise("TypeError")
        ELSE LET q == PyDiv(ToFloat(length).val, mag)
             IN  IF q.exc # "none" THEN q ELSE __mul__(self, PyFloat(q.val))

----------------------------------------------------------------------------
(* Vector: geometric operations                                            *)

\* a float result, when the model represents it
OkFloat(f) == IF f.ok THEN Ok(PyFloat(f)) ELSE Unmodelled

\* Vector.dot(other)
dot(self, other) ==
    LET d == decompose(<<other>>)
    IN  IF d.exc # "none" THEN d
        ELSE OkFloat(FAdd(FAdd(FMul(self[1], d.val[1]), FMul(self[2], d.val[2])),
                          FMul(self[3], d.val[3])))

\* a cross product whose y component has its two products the wrong way round
crossFlipped(self, other) ==
    LET d == decompose(<<other>>)
    IN  IF d.exc # "none" THEN d
        ELSE Vector3(FSub(FMul(self[2], d.val[3]), FMul(self[3], d.val[2])),
                     FSub(FMul(self[1], d.val[3]), FMul(self[3], d.val[1])),
                     FSub(FMul(self[1], d.val[2]), FMul(self[2], d.val[1])))

\* Vector.cross(other)
cross(self, other) ==
    LET d == decompose(<<other>>)
    IN  IF d.exc # "none" THEN d
        ELSE Vector3(FSub(FMul(self[2], d.val[3]), FMul(self[3], d.val[2])),
                     FSub(FMul(self[3], d.val[1]), FMul(self[1], d.val[3])),
                     FSub(FMul(self[1], d.val[2]), FMul(self[2], d.val[1])))

\* Vector.distance(other)
Vector_distance(self, other) ==
    LET v == Vector(<<other>>)
    IN  IF v.exc # "none" THEN v
        ELSE LET w == __sub__(v.val.xyz, PyVector(self))
             IN  IF w.exc # "none" THEN w ELSE OkFloat(magnitude(w.val.xyz))

\* an interpolation that returns the scaled difference without adding self
Vector_lerpNoOffset(self, other, factor) ==
    LET v == Vector(<<other>>)
    IN  IF v.exc # "none" THEN v
        ELSE LET w == __sub__(v.val.xyz, PyVector(self))
                 f == ToFloat(factor)
             IN  IF w.exc # "none" THEN w
                 ELSE IF f.exc # "none" THEN f
                 ELSE __mul__(w.val.xyz, PyFloat(f.val))

\* Vector.lerp(other, factor)
Vector_lerp(self, other, factor) ==
    LET v == Vector(<<other>>)
    IN  IF v.exc # "none" THEN v
        ELSE LET w == __sub__(v.val.xyz, PyVector(self))
                 f == ToFloat(factor)
             IN  IF w.exc # "none" THEN w
                 ELSE IF f.exc # "none" THEN f
                 ELSE LET d == __mul__(w.val.xyz, PyFloat(f.val))
                      IN  IF d.exc # "none" THEN d ELSE __add__(self, d.val)

\* a projection that decomposes its operand before it normalizes self
projectOperandFirst(self, other) ==
    LET d == decompose(<<other>>)
        uv == normalize(self, PyFloat(Num(1, 0)))
    IN  IF d.exc # "none" THEN d
        ELSE IF uv.exc # "none" THEN uv
        ELSE LET p == dot(uv.val.xyz, other)
             IN  IF p.exc # "none" THEN p ELSE __mul__(uv.val.xyz, p.val)

\* Vector.project(other)
project(self, other) ==
    LET uv == normalize(self, PyFloat(Num(1, 0)))
    IN  IF uv.exc # "none" THEN uv
        ELSE LET p == dot(uv.val.xyz, other)
             IN  IF p.exc # "none" THEN p ELSE __mul__(uv.val.xyz, p.val)

\* math.acos(c)
math_acos(c) ==
    IF ~c.ok THEN Unmodelled
    ELSE IF ~LeNonNeg(FAbs(c), Num(1, 0)) THEN Raise("ValueError")
    ELSE Ok(PyAcos(c))

\* Vector.angle_between(other)
angle_between(self, other) ==
    LET v1 == normalize(self, PyFloat(Num(1, 0)))
    IN  IF v1.exc # "none" THEN v1
        ELSE LET o == Vector(<<other>>)
             IN  IF o.exc # "none" THEN o
                 ELSE LET v2 == normalize(o.val.xyz, PyFloat(Num(1, 0)))
                      IN  IF v2.exc # "none" THEN v2
                          ELSE LET c == dot(v1.val.xyz, v2.val)
                               IN  IF c.exc # "none" THEN c ELSE math_acos(c.val.f)

----------------------------------------------------------------------------
(* Vector: comparison                                                      *)

\* cx and cy and cz on the outcomes of three comparisons, short-circuit
And3(cx, cy, cz) ==
    IF cx.exc # "none" THEN cx
    ELSE IF ~cx.val THEN Ok(PyBool(FALSE))
    ELSE IF cy.exc # "none" THEN cy
    ELSE IF ~cy.val THEN Ok(PyBool(FALSE))
    ELSE IF cz.exc # "none" THEN cz
    ELSE Ok(PyBool(cz.val))

\* Vector.isclose(other, abs_tol)
Vector_isclose(self, other, abs_tol) ==
    LET o == Vector(<<other>>)
    IN  IF o.exc # "none" THEN o
        ELSE And3(math_isclose(self[1], o.val.xyz[1], REL_TOL, abs_tol),
                  math_isclose(self[2], o.val.xyz[2], REL_TOL, abs_tol),
                  math_isclose(self[3], o.val.xyz[3], REL_TOL, abs_tol))

\* Vector.__eq__(other)
__eq__(self, other) ==
    LET d == decompose(<<other>>)
    IN  IF d.exc # "none" THEN d
        ELSE And3(isclose(self[1], d.val[1]),
                  isclose(self[2], d.val[2]),
                  isclose(self[3], d.val[3]))

\* an ordering that takes components within tolerance as equal
__lt__Tolerant(self, other) ==
    LET d == decompose(<<other>>)
    IN  IF d.exc # "none" THEN d
        ELSE LET cx == isclose(self[1], d.val[1])
                 cy == isclose(self[2], d.val[2])
             IN  IF cx.exc = "none" /\ cx.val THEN
                     IF cy.exc = "none" /\ cy.val
                     THEN Ok(PyBool(FLt(self[3], d.val[3])))
                     ELSE Ok(PyBool(FLt(self[2], d.val[2])))
                 ELSE Ok(PyBool(FLt(self[1], d.val[1])))

\* Vector.__lt__(other)
__lt__(self, other) ==
    LET d == decompose(<<other>>)
    IN  IF d.exc # "none" THEN d
        ELSE IF self[1] = d.val[1] THEN
            IF self[2] = d.val[2] THEN Ok(PyBool(FLt(self[3], d.val[3])))
            ELSE Ok(PyBool(FLt(self[2], d.val[2])))
        ELSE Ok(PyBool(FLt(self[1], d.val[1])))

----------------------------------------------------------------------------
(* Free functions                                                          *)

\* distance(p1, p2)
distance(p1, p2) ==
    LET v == Vector(<<p1>>)
    IN  IF v.exc # "none" THEN v ELSE Vector_distance(v.val.xyz, p2)

\* lerp(p1, p2, factor)
lerp(p1, p2, factor) ==
    LET v == Vector(<<p1>>)
    IN  IF v.exc # "none" THEN v ELSE Vector_lerp(v.val.xyz, p2, factor)

----------------------------------------------------------------------------
(* State.  heap maps the identity of each live Vector instance to its      *)
(* slots; res is the last call made and what it returned or raised.        *)

\* longest tuple passed as an argument
MaxSeqLen == 4

\* most positional arguments passed to Vector()
MaxArgs == 4

\* farthest index tried on either side of the valid range
MaxIndex == 4

\* the slots of Vector(x, y, z) for integers x, y, z
Slots(x, y, z) == <<Norm(x, 0), Norm(y, 0), Norm(z, 0)>>

\* X_AXIS, Y_AXIS, Z_AXIS, NULLVEC, then the caller's own vectors
\* Vector(1, 2, 3), Vector((3, 4)) and Vector(2e20, 2, 0)
Permanent ==
    <<Slots(1, 0, 0), Slots(0, 1, 0), Slots(0, 0, 1), Slots(0, 0, 0),
      Slots(1, 2, 3), Slots(3, 4, 0), <<Num(2, 20), Num(2, 0), Zero>> >>

NULLVEC == 4

SelfIds == DOMAIN Permanent

\* the two identities a result may be given; the one in use is the result
\* the last call returned, which is released when the next call returns
TempIds == {Len(Permanent) + 1, Len(Permanent) + 2}

\* the tuple (1, 2, ..., n)
SeqOfLen(n) == PySeq([i \in 1..n |-> PyInt(i)])

Seqs == {SeqOfLen(n) : n \in 0..MaxSeqLen}

\* tuples near the tolerances of the comparisons
CloseSeqs ==
    { PySeq(<<PyFloat(Num(6, -15)), PyInt(0), PyInt(0)>>),
      PySeq(<<PyFloat(Num(2, -14)), PyInt(0), PyInt(0)>>),
      PySeq(<<PyFloat(Num(5, -13)), PyInt(0)>>),
      PySeq(<<PyFloat(Num(2000000001, 11)), PyInt(2), PyInt(0)>>) }

Scalars == {PyInt(0), PyInt(2), PyFloat(Num(5, -1))}

Refs == {PyVector(Permanent[i]) : i \in SelfIds}

\* what a caller passes where a vector is expected
Others == Refs \cup Seqs \cup CloseSeqs \cup Scalars \cup {PyNone}

Factors == {PyInt(0), PyInt(1), PyFloat(Num(5, -1))}

Indices == {PyInt(i) : i \in (0 - MaxIndex)..MaxIndex}

Numbers == {PyInt(1), PyInt(-2), PyFloat(Num(25, -1))}

RECURSIVE ListsUpTo(_, _)
ListsUpTo(S, n) ==
    IF n = 0 THEN {<<>>}
    ELSE LET shorter == ListsUpTo(S, n - 1)
         IN  shorter \cup {Append(l, x) : l \in {k \in shorter : Len(k) = n - 1}, x \in S}

\* argument lists of Vector(): numbers, or one vector-like argument
ArgLists == ListsUpTo(Numbers, MaxArgs) \cup {<<o>> : o \in Others}

Absent == [t |-> "absent"]

\* a store that writes a returned vector over the instance the call was made on
StoreInPlace(h, self, out) ==
    LET kept == [i \in SelfIds |-> h[i]]
    IN  IF out.exc = "none" /\ out.val.t = "Vector" /\ self \in SelfIds
        THEN [kept EXCEPT ![self] = out.val.xyz]
        ELSE kept

\* the heap after a call on the heap h came out as out
Store(h, self, out) ==
    LET kept == [i \in SelfIds |-> h[i]]
        new  == CHOOSE i \in TempIds : i \notin DOMAIN h
    IN  IF out.exc = "none" /\ out.val.t = "Vector"
        THEN [i \in SelfIds \cup {new} |-> IF i = new THEN out.val.xyz ELSE kept[i]]
        ELSE kept

\* the identity of the instance a call returned, 0 when it returned none
Returned(h, h2) ==
    IF \E i \in TempIds : i \in DOMAIN h2 /\ i \notin DOMAIN h
    THEN CHOOSE i \in TempIds : i \in DOMAIN h2 /\ i \notin DOMAIN h
    ELSE 0

\* one call: op on the instance self (0 for a function) with arguments a1, a2
Call(op, self, a1, a2, out) ==
    /\ out.exc # "unmodelled"
    /\ heap' = Store(heap, self, out)
    /\ res' = [op |-> op, self |-> self, a1 |-> a1, a2 |-> a2,
               exc |-> out.exc, val |-> out.val, id |-> Returned(heap, heap')]

Init ==
    /\ heap = [i \in SelfIds |-> Permanent[i]]
    /\ res = [op |-> "init", self |-> 0, a1 |-> Absent, a2 |-> Absent,
              exc |-> "none", val |-> PyNone, id |-> 0]

----------------------------------------------------------------------------
(* Actions: one per public operation                                       *)

\* the tuple decompose returns
AsTuple(d) ==
    IF d.exc # "none" THEN d
    ELSE Ok(PySeq(<<PyFloat(d.val[1]), PyFloat(d.val[2]), PyFloat(d.val[3])>>))

DoDecompose(A) == \E args \in A :
    Call("decompose", 0, PySeq(args), Absent, AsTuple(decompose(args)))

DoVector(A) == \E args \in A :
    Call("Vector", 0, PySeq(args), Absent, Vector(args))

DoXyz(S) == \E s \in S : Call("xyz", s, Absent, Absent, xyz(heap[s]))

DoXy(S) == \E s \in S : Call("xy", s, Absent, Absent, xy(heap[s]))

DoCopy(S) == \E s \in S : Call("copy", s, Absent, Absent, copy(heap[s]))

DoReplace(S) == \E s \in S, x, y, z \in {PyNone, PyInt(9)} :
    Call("replace", s, PySeq(<<x, y, z>>), Absent, replace(heap[s], x, y, z))

DoHash(S) == \E s \in S :
    Call("__hash__", s, Absent, Absent, __hash__(heap[s]))

DoGetItem(S) == \E s \in S, i \in Indices :
    Call("__getitem__", s, i, Absent, __getitem__(heap[s], i))

DoAdd(S, O) == \E s \in S, o \in O :
    Call("__add__", s, o, Absent, __add__(heap[s], o))

DoRAdd(S, O) == \E s \in S, o \in O :
    Call("__radd__", s, o, Absent, __radd__(heap[s], o))

DoSub(S, O) == \E s \in S, o \in O :
    Call("__sub__", s, o, Absent, __sub__(heap[s], o))

DoRSub(S, O) == \E s \in S, o \in O :
    Call("__rsub__", s, o, Absent, __rsub__(heap[s], o))

DoMul(S, O) == \E s \in S, o \in O :
    Call("__mul__", s, o, Absent, __mul__(heap[s], o))

DoRMul(S, O) == \E s \in S, o \in O :
    Call("__rmul__", s, o, Absent, __rmul__(heap[s], o))

DoTrueDiv(S, O) == \E s \in S, o \in O :
    Call("__truediv__", s, o, Absent, __truediv__(heap[s], o))

DoRTrueDiv(S, O) == \E s \in S, o \in O :
    Call("__rtruediv__", s, o, Absent, __rtruediv__(heap[s], o))

DoReversed(S) == \E s \in S :
    Call("reversed", s, Absent, Absent, reversed(heap[s]))

DoOrthogonal(S) == \E s \in S, ccw \in BOOLEAN :
    Call("orthogonal", s, PyBool(ccw), Absent, orthogonal(heap[s], ccw))

DoNormalize(S) == \E s \in S, l \in {PyFloat(Num(1, 0)), PyInt(2)} :
    Call("normalize", s, l, Absent, normalize(heap[s], l))

DoDot(S, O) == \E s \in S, o \in O :
    Call("dot", s, o, Absent, dot(heap[s], o))

DoCross(S, O) == \E s \in S, o \in O :
    Call("cross", s, o, Absent, cross(heap[s], o))

DoDistance(S, O) == \E s \in S, o \in O :
    Call("Vector.distance", s, o, Absent, Vector_distance(heap[s], o))

DoLerp(S, O) == \E s \in S, o \in O, f \in Factors :
    Call("Vector.lerp", s, o, f, Vector_lerp(heap[s], o, f))

DoProject(S, O) == \E s \in S, o \in O :
    Call("project", s, o, Absent, project(heap[s], o))

DoAngleBetween(S, O) == \E s \in S, o \in O :
    Call("angle_between", s, o, Absent, angle_between(heap[s], o))

DoIsClose(S, O) == \E s \in S, o \in O :
    Call("Vector.isclose", s, o, Absent, Vector_isclose(heap[s], o, Num(1, -12)))

DoEq(S, O) == \E s \in S, o \in O :
    Call("__eq__", s, o, Absent, __eq__(heap[s], o))

DoLt(S, O) == \E s \in S, o \in O :
    Call("__lt__", s, o, Absent, __lt__(heap[s], o))

DoFreeDistance(P, O) == \E p1 \in P, p2 \in O :
    Call("distance", 0, p1, p2, distance(p1, p2))

DoFreeLerp(P, O) == \E p1 \in P, p2 \in O, f \in Factors :
    Call("lerp", 0, p1, PySeq(<<p2, f>>), lerp(p1, p2, f))

----------------------------------------------------------------------------
(* Specifications                                                          *)

\* a small choice of instances and operands, for the runs over every operation
FewIds == {NULLVEC, 6, 7}

FewOthers == {PyVector(Permanent[5]), SeqOfLen(3), SeqOfLen(1), PyInt(2), PyNone}

FewArgs == {<<>>, <<PyInt(1), PyInt(2)>>, <<SeqOfLen(2)>>, <<PyNone>>}

\* every public operation
Next ==
    \/ DoDecompose(FewArgs) \/ DoVector(FewArgs)
    \/ DoXyz(FewIds) \/ DoXy(FewIds) \/ DoCopy(FewIds) \/ DoReplace(FewIds)
    \/ DoGetItem(FewIds) \/ DoHash(FewIds)
    \/ DoAdd(FewIds, FewOthers) \/ DoRAdd(FewIds, FewOthers)
    \/ DoSub(FewIds, FewOthers) \/ DoRSub(FewIds, FewOthers)
    \/ DoMul(FewIds, FewOthers) \/ DoRMul(FewIds, FewOthers)
    \/ DoTrueDiv(FewIds, FewOthers) \/ DoRTrueDiv(FewIds, FewOthers)
    \/ DoReversed(FewIds) \/ DoOrthogonal(FewIds) \/ DoNormalize(FewIds)
    \/ DoDot(FewIds, FewOthers) \/ DoCross(FewIds, FewOthers)
    \/ DoDistance(FewIds, FewOthers) \/ DoLerp(FewIds, FewOthers)
    \/ DoProject(FewIds, FewOthers) \/ DoAngleBetween(FewIds, FewOthers)
    \/ DoIsClose(FewIds, FewOthers) \/ DoEq(FewIds, FewOthers) \/ DoLt(FewIds, FewOthers)
    \/ DoFreeDistance(FewOthers, FewOthers) \/ DoFreeLerp(FewOthers, FewOthers)

Spec == Init /\ [][Next]_vars

\* construction and decomposition over every argument list
NextConstruct == DoDecompose(ArgLists) \/ DoVector(ArgLists)

SpecConstruct == Init /\ [][NextConstruct]_vars

\* the arithmetic operators over every instance and operand
NextArith ==
    \/ DoAdd(SelfIds, Others) \/ DoRAdd(SelfIds, Others)
    \/ DoSub(SelfIds, Others) \/ DoRSub(SelfIds, Others)
    \/ DoMul(SelfIds, Scalars \cup {PyNone}) \/ DoRMul(SelfIds, Scalars \cup {PyNone})
    \/ DoTrueDiv(SelfIds, Scalars \cup {PyNone})
    \/ DoRTrueDiv(SelfIds, Scalars \cup {PyNone})
    \/ DoReversed(SelfIds) \/ DoNormalize(SelfIds)

SpecArith == Init /\ [][NextArith]_vars

\* the accessors over every instance
NextAccess ==
    \/ DoXyz(SelfIds) \/ DoXy(SelfIds) \/ DoCopy(SelfIds) \/ DoReplace(SelfIds)
    \/ DoGetItem(SelfIds) \/ DoOrthogonal(SelfIds)

SpecAccess == Init /\ [][NextAccess]_vars

\* the comparisons over every instance and operand
NextCompare ==
    DoEq(SelfIds, Others) \/ DoLt(SelfIds, Others) \/ DoIsClose(SelfIds, Others)

SpecCompare == Init /\ [][NextCompare]_vars

\* interpolation, as a method and as a function
NextLerp ==
    DoLerp(SelfIds, Refs \cup Seqs) \/ DoFreeLerp(Refs \cup Seqs, Refs \cup Seqs)

SpecLerp == Init /\ [][NextLerp]_vars

\* operands of the products: every instance, short sequences, bad operands
\* and a sequence with a component of large magnitude
CrossOperands ==
    Refs \cup {SeqOfLen(1), SeqOfLen(2), SeqOfLen(3), PyNone,
               PySeq(<<PyInt(0), PyInt(2), PyFloat(Num(2, 20))>>)}

\* the dot and cross products over every instance
NextCross == DoCross(SelfIds, CrossOperands) \/ DoDot(SelfIds, CrossOperands)

SpecCross == Init /\ [][NextCross]_vars

\* Vector instances within tolerance of NULLVEC and of (2e20, 2, 0), or just
\* outside it
CloseVectors ==
    { PyVector(<<Num(6, -15), Zero, Zero>>),
      PyVector(<<Num(2, -14), Zero, Zero>>),
      PyVector(<<Num(2000000001, 11), Num(2, 0), Zero>>) }

\* hashing and equality over every instance
NextHash == DoHash(SelfIds) \/ DoEq(SelfIds, Others \cup CloseVectors)

SpecHash == Init /\ [][NextHash]_vars

----------------------------------------------------------------------------
(* Properties                                                              *)

\* the number a Python int or float stands for
ValueOf(v) == IF v.t = "int" THEN Norm(v.n, 0) ELSE v.f

AllNumbers(q) == \A i \in 1..Len(q) : IsNumber(q[i])

\* the last call constructed or decomposed from an argument list
Constructing == res.op \in {"decompose", "Vector"}

\* the triple the last construction or decomposition produced
Produced ==
    IF res.op = "Vector" THEN heap[res.id]
    ELSE <<res.val.items[1].f, res.val.items[2].f, res.val.items[3].f>>

\* the argument shapes the arity rules accept
Accepted(args) ==
    \/ Len(args) = 0
    \/ Len(args) = 1 /\ args[1].t = "Vector"
    \/ Len(args) = 1 /\ args[1].t = "seq" /\ Len(args[1].items) \in {2, 3}
                     /\ AllNumbers(args[1].items)
    \/ Len(args) \in {2, 3} /\ AllNumbers(args)

\* the triple the arity rules give for an accepted argument list
ByArity(args) ==
    IF Len(args) = 0 THEN <<Zero, Zero, Zero>>
    ELSE IF Len(args) = 1 /\ args[1].t = "Vector" THEN args[1].xyz
    ELSE LET q == IF Len(args) = 1 THEN args[1].items ELSE args
         IN  <<ValueOf(q[1]), ValueOf(q[2]), IF Len(q) = 3 THEN ValueOf(q[3]) ELSE Zero>>

\* C1: decompose, and so the constructor, resolves its arguments by arity:
\* none give (0, 0, 0), one Vector its components, one 2-sequence (x, y, 0),
\* one 3-sequence (x, y, z), two numbers (x, y, 0), three numbers (x, y, z).
C1_ArityRules ==
    (Constructing /\ Accepted(res.a1.items)) =>
        (res.exc = "none" /\ Produced = ByArity(res.a1.items))

C1_Witness ==
    /\ res.op = "Vector"
    /\ res.a1.items = <<SeqOfLen(2)>>
    /\ res.id # 0
    /\ heap[res.id] = Slots(1, 2, 0)

\* the argument shapes outside the accepted ones
Outside(args) ==
    \/ Len(args) > 3
    \/ /\ Len(args) = 1
       /\ args[1].t # "Vector"
       /\ (args[1].t = "seq" => Len(args[1].items) \notin {2, 3})

\* C2: every input outside the accepted shapes (a non-iterable scalar, a
\* sequence of a length other than 2 or 3, more than three arguments) fails
\* with the invalid-arguments error and yields no triple.
C2_RejectsOtherShapes ==
    (Constructing /\ Outside(res.a1.items)) => res.exc = "ValueError"

\* C3: s - v is (s - x, s - y, s - z) and o - v is (ox - x, oy - y, oz - z),
\* each the negation of v - s, respectively v - o.
C3_RSubDirection ==
    (res.op = "__rsub__" /\ res.exc = "none") =>
        LET v == heap[res.self]
            o == IF IsNumber(res.a1)
                 THEN <<ValueOf(res.a1), ValueOf(res.a1), ValueOf(res.a1)>>
                 ELSE decompose(<<res.a1>>).val
            r == heap[res.id]
        IN  /\ r = <<FSub(o[1], v[1]), FSub(o[2], v[2]), FSub(o[3], v[3])>>
            /\ r = <<FNeg(FSub(v[1], o[1])), FNeg(FSub(v[2], o[2])), FNeg(FSub(v[3], o[3]))>>

\* the last call indexed a vector with an integer
Indexing == res.op = "__getitem__" /\ res.a1.t = "int"

\* C4 as stated: v[i] is x, y, z for i = 0, 1, 2 and an error for every other
\* integer index, negative indices included.
C4_OnlyZeroOneTwo ==
    Indexing =>
        IF res.a1.n \in 0..2
        THEN res.exc = "none" /\ res.val = PyFloat(heap[res.self][res.a1.n + 1])
        ELSE res.exc # "none"

\* C4: v[i] is x, y, z for i = 0, 1, 2; the negative indices -1, -2, -3 give
\* z, y, x; every other integer index fails with IndexError.
C4_TupleIndexing ==
    Indexing =>
        IF res.a1.n \in 0..2
        THEN res.exc = "none" /\ res.val = PyFloat(heap[res.self][res.a1.n + 1])
        ELSE IF res.a1.n \in (0 - 3)..(0 - 1)
        THEN res.exc = "none" /\ res.val = PyFloat(heap[res.self][res.a1.n + 4])
        ELSE res.exc = "IndexError"

C4_Witness ==
    /\ Indexing
    /\ res.self = 5
    /\ res.a1.n = 0 - 1
    /\ res.val = PyFloat(Num(3, 0))

\* |b - a| <= tol
Within(a, b, tol) == LeNonNeg(FAbs(FSub(b, a)), tol)

\* the last call compared a vector for equality and gave a verdict
Compared == res.op = "__eq__" /\ res.exc = "none"

\* the components the last call's operand decomposes to
OperandXYZ == decompose(<<res.a1>>).val

\* C5 as stated: == is true iff each component pair differs by at most the
\* absolute tolerance 1e-14, whatever the magnitude of the components.
C5_AbsoluteTolerance ==
    Compared =>
        (res.val.b <=> \A k \in 1..3 :
            Within(heap[res.self][k], OperandXYZ[k], Num(1, -14)))

\* a and b are equal, or within 1e-9 of the larger magnitude, or within 1e-14
CloseEnough(a, b) ==
    \/ a = b
    \/ Within(a, b, FMul(Num(1, -9), FAbs(a)))
    \/ Within(a, b, FMul(Num(1, -9), FAbs(b)))
    \/ Within(a, b, Num(1, -14))

\* C5: == is true iff each component pair is equal, or differs by at most
\* 1e-9 times the larger of the two magnitudes, or by at most 1e-14.
C5_RelativeOrAbsolute ==
    Compared =>
        (res.val.b <=> \A k \in 1..3 : CloseEnough(heap[res.self][k], OperandXYZ[k]))

C5_Witness ==
    /\ Compared
    /\ res.self = 7
    /\ OperandXYZ = <<Num(2000000001, 11), Num(2, 0), Zero>>
    /\ res.val.b

\* the last call divided by zero: v / 0, s / v with a zero component in v,
\* or normalize() of the null vector
DividesByZero ==
    \/ res.op = "__truediv__" /\ IsNumber(res.a1) /\ ValueOf(res.a1) = Zero
    \/ res.op = "__rtruediv__" /\ IsNumber(res.a1)
                               /\ \E k \in 1..3 : heap[res.self][k] = Zero
    \/ res.op = "normalize" /\ heap[res.self] = <<Zero, Zero, Zero>>

\* C6 as stated: v / 0, s / v with a zero component in v and normalize() of a
\* null vector each return a value instead of raising an error.
C6_ReturnsValue == DividesByZero => res.exc = "none"

\* C6: v / 0, s / v with a zero component in v (s a number) and normalize()
\* of the null vector each raise ZeroDivisionError; none of them returns a
\* value and none raises the invalid-arguments error.
C6_RaisesZeroDivision ==
    DividesByZero => (res.exc = "ZeroDivisionError" /\ res.id = 0 /\ res.val = PyNone)

C6_Witness ==
    /\ res.op = "__rtruediv__"
    /\ res.self = 6
    /\ res.a1 = PyInt(2)
    /\ res.exc = "ZeroDivisionError"

\* the vector the last call returned == the vector of the outcome out
SameAsReturned(out) ==
    /\ out.exc = "none"
    /\ res.exc = "none"
    /\ res.id # 0
    /\ __eq__(heap[res.id], out.val) = Ok(PyBool(TRUE))

\* C9: a + b == b + a for all vectors a, b, and s * a == a * s and
\* s + a == a + s for every scalar s.
C9_Commutativity ==
    /\ (res.op = "__add__" /\ res.a1.t = "Vector") =>
           SameAsReturned(__add__(res.a1.xyz, PyVector(heap[res.self])))
    /\ (res.op = "__rmul__" /\ IsNumber(res.a1)) =>
           SameAsReturned(__mul__(heap[res.self], res.a1))
    /\ (res.op = "__radd__" /\ IsNumber(res.a1)) =>
           SameAsReturned(__add__(heap[res.self], res.a1))

C9_Witness ==
    /\ res.op = "__radd__"
    /\ res.self = 5
    /\ res.a1 = PyInt(2)
    /\ res.id # 0
    /\ heap[res.id] = Slots(3, 4, 5)

\* C7: whatever public operation is called, and whether it succeeds or fails,
\* every vector that existed before, the module constants X_AXIS, Y_AXIS,
\* Z_AXIS and NULLVEC included, keeps the components it was constructed with,
\* and a vector-valued operation delivers its result as a new instance.
C7_Immutable ==
    [][ /\ \A i \in SelfIds : i \in DOMAIN heap' /\ heap'[i] = heap[i]
        /\ \A i \in SelfIds : heap'[i] = Permanent[i]
        /\ (res'.exc = "none" /\ res'.val.t = "Vector") =>
               /\ res'.id \notin DOMAIN heap
               /\ res'.id \in DOMAIN heap'
               /\ heap'[res'.id] = res'.val.xyz ]_vars

C7_Witness ==
    /\ res.op = "__add__"
    /\ res.self = 6
    /\ res.a1 = PyInt(2)
    /\ res.id \notin SelfIds
    /\ res.id \in DOMAIN heap
    /\ heap[res.id] = Slots(5, 6, 2)
    /\ heap[res.self] = Slots(3, 4, 0)

\* the operations that take a vector-like operand
OperandOps ==
    {"__add__", "__radd__", "__sub__", "__rsub__", "__eq__", "__lt__", "dot", "cross",
     "Vector.distance", "Vector.lerp", "Vector.isclose", "project", "angle_between"}

\* o is neither a Vector nor a sequence of at least two elements
WrongShape(o) == o.t # "Vector" /\ (o.t = "seq" => Len(o.items) < 2)

\* the last call was given an operand that cannot be decomposed; + and -
\* take a number as a scalar and do not decompose it
CannotDecompose ==
    /\ res.op \in OperandOps
    /\ WrongShape(res.a1)
    /\ res.op \in {"__add__", "__radd__", "__sub__", "__rsub__"} => ~IsNumber(res.a1)

\* C8 as stated: in every operation that takes a vector-like operand, an
\* operand that cannot be decomposed always gives the invalid-arguments error,
\* never a different error raised by earlier arithmetic.
C8_AlwaysInvalidArguments == CannotDecompose => res.exc = "ValueError"

\* C8: an operand that cannot be decomposed gives the invalid-arguments error
\* in +, -, ==, <, dot, cross, distance, lerp and isclose; project and
\* angle_between normalize self first, so they give ZeroDivisionError when
\* self has magnitude zero and the invalid-arguments error otherwise.  No
\* such call returns a value.
C8_DecomposesFirst ==
    CannotDecompose =>
        /\ res.id = 0
        /\ IF res.op \in {"project", "angle_between"} /\ magnitude(heap[res.self]) = Zero
           THEN res.exc = "ZeroDivisionError"
           ELSE res.exc = "ValueError"

C8_Witness ==
    /\ res.op = "project"
    /\ res.self = NULLVEC
    /\ res.a1 = PyNone
    /\ res.exc = "ZeroDivisionError"

\* the last call was a.lerp(b, factor) and returned a vector
Lerped == res.op = "Vector.lerp" /\ res.exc = "none" /\ res.id # 0

\* the vector the last call returned == other
ReturnedEquals(other) == __eq__(heap[res.id], other) = Ok(PyBool(TRUE))

\* (a + b) / 2 on the vector a and the operand b
Midpoint(a, b) ==
    LET sum == __add__(a, b)
    IN  IF sum.exc # "none" THEN sum ELSE __truediv__(sum.val.xyz, PyInt(2))

\* the outcome of the last call to the free function lerp(p1, p2, f) is that
\* of Vector(p1).lerp(p2, f)
FreeLerpAgrees ==
    res.op = "lerp" =>
        LET v == Vector(<<res.a1>>)
            m == IF v.exc # "none" THEN v
                 ELSE Vector_lerp(v.val.xyz, res.a2.items[1], res.a2.items[2])
        IN  /\ res.exc = m.exc
            /\ res.val = m.val

NoRounding(a, b, f) ==
    \A k \in 1..3 :
        /\ AddIsExact(b[k], FNeg(a[k]))
        /\ AddIsExact(a[k], FMul(FSub(b[k], a[k]), f))
        /\ AddIsExact(a[k], b[k])

LexLess(a, b) ==
    \E k \in 1..3 : FLt(a[k], b[k]) /\ \A j \in 1..(k - 1) : a[j] = b[j]

\* a < b on triples, as the operator decides it
Less(a, b) == __lt__(a, PyVector(b)) = Ok(PyBool(TRUE))

\* the last call ordered a vector against an operand and gave a verdict
Ordered == res.op = "__lt__" /\ res.exc = "none"

\* C11: a < b holds exactly when (a.x, a.y, a.z) is lexicographically smaller
\* than (b.x, b.y, b.z) under exact comparison; < is irreflexive and
\* transitive, and of two different triples exactly one is below the other.
C11_LexicographicOrder ==
    Ordered =>
        LET a == heap[res.self]
            b == OperandXYZ
        IN  /\ res.val.b <=> LexLess(a, b)
            /\ ~Less(a, a)
            /\ a # b => (Less(a, b) <=> ~Less(b, a))
            /\ \A i \in SelfIds : (res.val.b /\ Less(b, heap[i])) => Less(a, heap[i])

C11_Witness ==
    /\ Ordered
    /\ res.self = NULLVEC
    /\ OperandXYZ = <<Num(6, -15), Zero, Zero>>
    /\ res.val.b
    /\ __eq__(heap[res.self], res.a1) = Ok(PyBool(TRUE))

\* the last call was v.orthogonal(ccw) and returned a vector
Turned == res.op = "orthogonal" /\ res.exc = "none" /\ res.id # 0

\* once.orthogonal().isclose(-v) for the vector once and the original v
TurnedAgainIsNegated(once, v) ==
    LET twice == orthogonal(once, TRUE)
        neg   == reversed(v)
    IN  /\ twice.exc = "none"
        /\ neg.exc = "none"
        /\ twice.val.xyz[3] = once[3]
        /\ Vector_isclose(twice.val.xyz, neg.val, Num(1, -12)) = Ok(PyBool(TRUE))

\* C12: for every vector v with z = 0, v.orthogonal().orthogonal() (counter
\* clockwise both times) is close to -v; each single application leaves z
\* unchanged.
C12_OrthogonalTwice ==
    Turned =>
        /\ heap[res.id][3] = heap[res.self][3]
        /\ (res.a1 = PyBool(TRUE) /\ heap[res.self][3] = Zero) =>
               TurnedAgainIsNegated(heap[res.id], heap[res.self])

C12_Witness ==
    /\ Turned
    /\ res.self = 6
    /\ res.a1 = PyBool(TRUE)
    /\ heap[res.id] = Slots(0 - 4, 3, 0)
    /\ orthogonal(heap[res.id], TRUE) = Ok(PyVector(Slots(0 - 3, 0 - 4, 0)))

\* the last call was a.cross(b) and returned a vector
Crossed == res.op = "cross" /\ res.exc = "none" /\ res.id # 0

\* the float f is 0 within the absolute tolerance of Vector.isclose
NearZero(f) == math_isclose(f, Zero, REL_TOL, Num(1, -12)) = Ok(TRUE)

\* c.dot(v) is 0 within tolerance (or a float the model does not represent)
DotNearZero(c, v) ==
    LET p == dot(c, PyVector(v))
    IN  p.exc = "unmodelled" \/ (p.exc = "none" /\ NearZero(p.val.f))

\* C13 as stated: for all non-parallel a and b, a.cross(b).dot(a) and
\* a.cross(b).dot(b) are both 0 within tolerance.
C13_CrossOrthogonal ==
    (Crossed /\ heap[res.id] # <<Zero, Zero, Zero>>) =>
        /\ DotNearZero(heap[res.id], heap[res.self])
        /\ DotNearZero(heap[res.id], OperandXYZ)

\* x + y is formed from two represented floats without rounding
SumIsExact(x, y) == x.ok /\ y.ok /\ AddIsExact(x, y)

\* the three differences of a.cross(b) are formed without rounding
CrossIsExact(a, b) ==
    /\ SumIsExact(FMul(a[2], b[3]), FNeg(FMul(a[3], b[2])))
    /\ SumIsExact(FMul(a[3], b[1]), FNeg(FMul(a[1], b[3])))
    /\ SumIsExact(FMul(a[1], b[2]), FNeg(FMul(a[2], b[1])))

\* the two sums of c.dot(v) are formed without rounding
DotIsExact(c, v) ==
    /\ SumIsExact(FMul(c[1], v[1]), FMul(c[2], v[2]))
    /\ SumIsExact(FAdd(FMul(c[1], v[1]), FMul(c[2], v[2])), FMul(c[3], v[3]))

\* C13: for all vectors a and b, a.cross(b).dot(a) and a.cross(b).dot(b) are
\* exactly 0 whenever the differences of the cross product and the sums of
\* the dot product are formed without rounding.
C13_ExactCrossOrthogonal ==
    Crossed =>
        LET a == heap[res.self]
            b == OperandXYZ
            c == heap[res.id]
        IN  /\ (CrossIsExact(a, b) /\ DotIsExact(c, a)) =>
                   dot(c, PyVector(a)) = Ok(PyFloat(Zero))
            /\ (CrossIsExact(a, b) /\ DotIsExact(c, b)) =>
                   dot(c, PyVector(b)) = Ok(PyFloat(Zero))

C13_Witness ==
    /\ Crossed
    /\ res.self = 5
    /\ res.a1 = PyVector(Permanent[6])
    /\ heap[res.id] = Slots(0 - 12, 9, 0 - 2)
    /\ CrossIsExact(heap[res.self], OperandXYZ)
    /\ DotIsExact(heap[res.id], heap[res.self])
    /\ dot(heap[res.id], PyVector(heap[res.self])) = Ok(PyFloat(Zero))

\* C14: for all vectors a and b, a == b implies hash(a) == hash(b).
C14_HashConsistent ==
    (Compared /\ res.a1.t = "Vector" /\ res.val.b) =>
        __hash__(heap[res.self]) = __hash__(res.a1.xyz)

====
